---- MODULE Spec2Model ----
(***************************************************************************)
(* Model of src/main.py: ContinuousSink, the per-speaker voice-activity    *)
(* gate of the Discord voice assistant.                                    *)
(*                                                                         *)
(* Three threads of control touch the sink:                                *)
(*   - the voice-receive thread, which calls ContinuousSink.write once per *)
(*     decoded frame (one call at a time);                                 *)
(*   - the bot's event loop, which runs the process_audio coroutines that  *)
(*     write scheduled with run_coroutine_threadsafe.  process_audio holds *)
(*     no await, so the loop runs one coroutine at a time, to its end;     *)
(*   - the audio player, which ends a playback on its own.                 *)
(*                                                                         *)
(* Time is in milliseconds.  A pcm byte string is kept as the record       *)
(* [len, amp]: len bytes of little-endian 16-bit samples that all have the *)
(* value amp (an odd len leaves one dangling byte).  A buffer is the       *)
(* sequence of the byte strings extended into it.                          *)
(***************************************************************************)
EXTENDS Integers, Sequences, FiniteSets, TLC

VARIABLES
    clock,           \* time.time(), in ms
    user_data,       \* self.user_data: user id -> [buffer, last_spoken, processing]
    speaking_users,  \* self.speaking_users
    playing,         \* self.voice_client.is_playing()
    wcall,           \* the receive thread's running call of write
    ready,           \* coroutines scheduled on bot.loop, not yet started (FIFO)
    task,            \* the process_audio coroutine the loop is running
    log,             \* history of the frames of one speaker (no program state)
    hist             \* history of every speaker's frames (no program state)

vars == <<clock, user_data, speaking_users, playing, wcall, ready, task, log, hist>>

(*------------------------------ constants ------------------------------*)

SILENCE_THRESHOLD == 500

\* SILENCE_DURATION = 1.2 seconds, in ms
SILENCE_DURATION == 1200

\* MIN_AUDIO_LENGTH * 48000 * 2 * 2 with MIN_AUDIO_LENGTH = 0.5, in bytes
MinAudioBytes == (48000 * 2 * 2) \div 2

(*-------------------------------- bounds -------------------------------*)

\* the clock stops advancing here
MaxClock == 3600

\* no loud frame is delivered for a speaker whose buffer holds this many
MaxBuffer == 2

TickSteps == {600, 1800}

Users == {1, 2}

\* user is None
None == 0

(*-------------------------------- frames -------------------------------*)

Loud1   == [len |-> 48000, amp |-> 1000]
Loud2   == [len |-> 96000, amp |-> -501]
Border  == [len |-> 3840,  amp |-> 500]
Empty   == [len |-> 0,     amp |-> 0]
Odd     == [len |-> 3841,  amp |-> 1000]

Frames == {Loud1, Loud2, Border, Empty, Odd}

(*--------------------------- the RMS estimate --------------------------*)

\* count = len(pcm) // 2
Count(pcm) == pcm.len \div 2

\* an unpack that never raises
UnpacksAny(pcm) == TRUE

\* struct.unpack("<" + "h" * count, pcm) raises unless len(pcm) = 2 * count
Unpacks(pcm) == pcm.len = 2 * Count(pcm)

\* sum_squares / count: the sum of s * s over count samples that all have the
\* value amp, divided by count (the sum itself is beyond TLC's integers)
MeanSquare(pcm) == pcm.amp * pcm.amp

\* line 73 with >= for >
RmsAtLeast(pcm, threshold) ==
    /\ Unpacks(pcm)
    /\ Count(pcm) > 0
    /\ MeanSquare(pcm) >= threshold * threshold

\* line 53 as struct.unpack(format, pcm[:2 * count]): a dangling byte is
\* dropped and nothing raises
RmsAboveTruncated(pcm, threshold) ==
    /\ Count(pcm) > 0
    /\ MeanSquare(pcm) > threshold * threshold

\* rms > threshold, where rms = sqrt(sum_squares / count) if count > 0 else 0,
\* and rms = 0 when unpack raised; compared in squares, to stay in integers
RmsAbove(pcm, threshold) ==
    /\ Unpacks(pcm)
    /\ Count(pcm) > 0
    /\ MeanSquare(pcm) > threshold * threshold

IsLoud(pcm) == RmsAbove(pcm, SILENCE_THRESHOLD)

(*------------------------------- buffers -------------------------------*)

RECURSIVE BufLen(_)
\* len(buffer), in bytes
BufLen(buf) == IF buf = <<>> THEN 0 ELSE Head(buf).len + BufLen(Tail(buf))

\* line 74 as user_record['buffer'] = bytearray(pcm)
ExtendReplace(buf, pcm) == <<pcm>>

\* line 74 as user_record['buffer'] + pcm: the sum is dropped
ExtendDropped(buf, pcm) == buf

\* user_record['buffer'].extend(pcm)
Extend(buf, pcm) == Append(buf, pcm)

\* the record write creates for a user it has not seen
NewRecord(now) == [buffer |-> <<>>, last_spoken |-> now, processing |-> FALSE]

\* lines 74-75 without line 75
SpokeNoRestart(rec, pcm, now) ==
    [rec EXCEPT !.buffer = Extend(rec.buffer, pcm)]

\* line 74 as user_record['buffer'][0:0] = pcm
SpokeInFront(rec, pcm, now) ==
    [rec EXCEPT !.buffer = <<pcm>> \o rec.buffer, !.last_spoken = now]

\* lines 74-75: a loud frame goes into the buffer and restarts the timer
Spoke(rec, pcm, now) ==
    [rec EXCEPT !.buffer = Extend(rec.buffer, pcm), !.last_spoken = now]

\* line 88 moved below line 96: the copy is taken of the cleared buffer
SnapshotAfterClear(buf) == <<>>

\* audio_copy = bytes(user_record['buffer']): the bytes of the buffer as they
\* are at line 88, in an object of their own that nothing can change
Snapshot(buf) == buf

\* line 83 as self.speaking_users.clear()
UnmarkAll(speaking, user) == {}

\* self.speaking_users.remove(user.id)
Unmark(speaking, user) == speaking \ {user}

(*-------------------------- write: the conditions ----------------------*)

\* line 45 without the playback check
SuppressedNoPlayback(user, is_playing) == user = None

\* user is None or self.voice_client.is_playing()
Suppressed(user, is_playing) == user = None \/ is_playing

\* line 70 without the return
IgnoredNever(rec) == FALSE

\* if user_record['processing']: return
Ignored(rec) == rec.processing

\* line 82 with >= for >
SilenceElapsedOrEqual(now, last_spoken) == now - last_spoken >= SILENCE_DURATION

\* silence_duration > SILENCE_DURATION
SilenceElapsed(now, last_spoken) == now - last_spoken > SILENCE_DURATION

\* line 86 with >= for >
LongEnoughOrEqual(buf) == BufLen(buf) >= MinAudioBytes

\* len(user_record['buffer']) > MIN_AUDIO_LENGTH * 48000 * 2 * 2
LongEnough(buf) == BufLen(buf) > MinAudioBytes

(*-------------------------- the transcribed text -----------------------*)

\* a text is the sequence of its characters
Transcripts == {<<>>, <<" ", " ">>, <<" ", "h", " ">>}

Whitespace == {" "}

RECURSIVE LStrip(_)
LStrip(text) ==
    IF text /= <<>> /\ Head(text) \in Whitespace THEN LStrip(Tail(text)) ELSE text

RECURSIVE RStrip(_)
RStrip(text) ==
    IF text /= <<>> /\ text[Len(text)] \in Whitespace
    THEN RStrip(SubSeq(text, 1, Len(text) - 1))
    ELSE text

\* user_text.strip()
Strip(text) == RStrip(LStrip(text))

\* line 126 without the strip
NothingSaidUnstripped(text) == text = <<>>

\* not user_text or len(user_text.strip()) == 0
NothingSaid(text) == text = <<>> \/ Len(Strip(text)) = 0

(*----------------------------- control state ---------------------------*)

\* wcall.pc: "body" = past the check of line 45, about to run lines 48-96;
\*           "ret"  = no call is running
NoCall == [user |-> None, pcm |-> Empty, pc |-> "ret"]

\* task.pc: the statement the coroutine is at; "idle" = the loop runs none
NoTask == [user |-> None, pcm_data |-> <<>>, user_text |-> <<>>,
           pc |-> "idle", outcome |-> "none"]

\* log, kept for Speaker alone and from the frames alone (what arrived, and
\* when its body read the clock), for the utterance the frames are in:
\*   loud    the loud frames, in arrival order
\*   last    the clock at the last of them
\*   pend    the silent frames since then (the silence has not run out)
\*   gap     the silent frames that a loud frame followed
\*   segs    the number of loud segments
\*   over    a silent frame arrived more than SILENCE_DURATION after last
\*   after   a frame arrived after that one
\*   flushes how often Speaker left speaking_users since the utterance began
NoLog == [loud |-> <<>>, last |-> 0, pend |-> <<>>, gap |-> <<>>, segs |-> 0,
          over |-> FALSE, after |-> FALSE, flushes |-> 0]

\* hist, kept for every speaker:
\*   accepted the loud frames that went into the buffer since the speaker's
\*            last flush, in arrival order, each with
\*              late: it came more than SILENCE_DURATION after the loud
\*                    frame before it in the sequence
\*   last     the time of the last of them (-1: none)
\*   quiet    the time since the last call of write with a loud frame of
\*            the speaker, whether or not the call got past line 45; not
\*            counted beyond SILENCE_DURATION, where it starts
\*   reply    the speaker whose reply is playing (None: nothing plays)
NoHist == [accepted |-> [u \in Users |-> <<>>],
           last     |-> [u \in Users |-> -1],
           quiet    |-> [u \in Users |-> SILENCE_DURATION],
           reply    |-> None]

Known(u) == u \in DOMAIN user_data

Processing(u) == Known(u) /\ user_data[u].processing

BufferOf(u) == IF Known(u) THEN user_data[u].buffer ELSE <<>>

Init ==
    /\ clock = 0
    /\ user_data = <<>>
    /\ speaking_users = {}
    /\ playing = FALSE
    /\ wcall = NoCall
    /\ ready = <<>>
    /\ task = NoTask
    /\ log = NoLog
    /\ hist = NoHist

(*--------------------------------- time --------------------------------*)

Tick ==
    /\ \E d \in TickSteps :
        /\ clock + d <= MaxClock
        /\ clock' = clock + d
    /\ UNCHANGED <<user_data, speaking_users, playing, wcall, ready, task>>

(*--------------------------- ContinuousSink.write ----------------------*)

\* write(user, data) is called with data.pcm = pcm and runs line 45
Called(user, pcm) ==
    /\ wcall.pc = "ret"
    /\ IsLoud(pcm) => Len(BufferOf(user)) < MaxBuffer
    /\ wcall' = IF Suppressed(user, playing)
                THEN NoCall
                ELSE [user |-> user, pcm |-> pcm, pc |-> "body"]
    /\ UNCHANGED <<clock, user_data, speaking_users, playing, ready, task>>

WriteEnter == \E user \in Users \cup {None}, pcm \in Frames : Called(user, pcm)

\* lines 61-66
Registered(ud, user, now) ==
    IF user \in DOMAIN ud THEN ud ELSE (user :> NewRecord(now)) @@ ud

\* lines 48-96
WriteBody ==
    /\ wcall.pc = "body"
    /\ wcall' = NoCall
    /\ LET user == wcall.user
           pcm  == wcall.pcm
           now  == clock
           ud   == Registered(user_data, user, now)
           rec  == ud[user]
       IN  IF Ignored(rec)
           THEN /\ user_data' = ud
                /\ UNCHANGED <<speaking_users, ready>>
           ELSE IF IsLoud(pcm)
           THEN /\ user_data' = [ud EXCEPT ![user] = Spoke(rec, pcm, now)]
                /\ speaking_users' = speaking_users \cup {user}
                /\ UNCHANGED ready
           ELSE IF user \in speaking_users /\ SilenceElapsed(now, rec.last_spoken)
           THEN /\ speaking_users' = Unmark(speaking_users, user)
                /\ IF LongEnough(rec.buffer)
                   THEN /\ user_data' = [ud EXCEPT ![user] =
                                [rec EXCEPT !.processing = TRUE, !.buffer = <<>>]]
                        /\ ready' = Append(ready,
                                [user |-> user, pcm_data |-> Snapshot(rec.buffer)])
                   ELSE /\ user_data' = [ud EXCEPT ![user] =
                                [rec EXCEPT !.buffer = <<>>]]
                        /\ UNCHANGED ready
           ELSE /\ user_data' = ud
                /\ UNCHANGED <<speaking_users, ready>>
    /\ UNCHANGED <<clock, playing, task>>

(*------------------------ ContinuousSink.process_audio -----------------*)

\* process_audio without its finally clause
ReleasedNever(ud, user) == ud

\* the finally clause clearing the flag of every tracker
ReleasedAll(ud, user) == [u \in DOMAIN ud |-> [ud[u] EXCEPT !.processing = FALSE]]

\* the finally clause: self.user_data[user.id]['processing'] = False
Released(ud, user) ==
    IF user \in DOMAIN ud THEN [ud EXCEPT ![user].processing = FALSE] ELSE ud

\* the loop starts the next scheduled coroutine: lines 99-108, up to the
\* transcription request, or out through the outer except when the wave
\* file cannot be written
TaskStart ==
    /\ task.pc = "idle"
    /\ ready /= <<>>
    /\ ready' = Tail(ready)
    /\ \E ok \in BOOLEAN :
        task' = [user |-> Head(ready).user, pcm_data |-> Head(ready).pcm_data,
                 user_text |-> <<>>,
                 pc |-> IF ok THEN "stt" ELSE "finally",
                 outcome |-> IF ok THEN "none" ELSE "wav_error"]
    /\ UNCHANGED <<clock, user_data, speaking_users, playing, wcall>>

\* lines 111-127: the transcription raises, or returns a text, which line
\* 126 lets through or not
Transcribe ==
    /\ task.pc = "stt"
    /\ \/ task' = [task EXCEPT !.pc = "finally", !.outcome = "stt_error"]
       \/ \E text \in Transcripts :
            task' = IF NothingSaid(text)
                    THEN [task EXCEPT !.user_text = text,
                                      !.pc = "finally", !.outcome = "empty"]
                    ELSE [task EXCEPT !.user_text = text, !.pc = "chat"]
    /\ UNCHANGED <<clock, user_data, speaking_users, playing, wcall, ready>>

\* lines 130-142
Chat ==
    /\ task.pc = "chat"
    /\ \E ok \in BOOLEAN :
        task' = IF ok THEN [task EXCEPT !.pc = "tts"]
                ELSE [task EXCEPT !.pc = "finally", !.outcome = "chat_error"]
    /\ UNCHANGED <<clock, user_data, speaking_users, playing, wcall, ready>>

\* lines 145-152
Synthesize ==
    /\ task.pc = "tts"
    /\ \E ok \in BOOLEAN :
        task' = IF ok THEN [task EXCEPT !.pc = "play"]
                ELSE [task EXCEPT !.pc = "finally", !.outcome = "tts_error"]
    /\ UNCHANGED <<clock, user_data, speaking_users, playing, wcall, ready>>

\* lines 155-159: play raises when the client is already playing or the
\* source cannot be opened; it returns as soon as the player has started
Play ==
    /\ task.pc = "play"
    /\ \E connected \in BOOLEAN, opens \in BOOLEAN :
        IF ~connected
        THEN /\ task' = [task EXCEPT !.pc = "finally", !.outcome = "not_connected"]
             /\ UNCHANGED playing
        ELSE IF playing \/ ~opens
        THEN /\ task' = [task EXCEPT !.pc = "finally", !.outcome = "play_error"]
             /\ UNCHANGED playing
        ELSE /\ task' = [task EXCEPT !.pc = "finally", !.outcome = "played"]
             /\ playing' = TRUE
    /\ UNCHANGED <<clock, user_data, speaking_users, wcall, ready>>

\* lines 163-165
Finally ==
    /\ task.pc = "finally"
    /\ user_data' = Released(user_data, task.user)
    /\ task' = NoTask
    /\ UNCHANGED <<clock, speaking_users, playing, wcall, ready>>

(*------------------------------ the player -----------------------------*)

\* the player reaches the end of the source (or is stopped)
PlaybackEnd ==
    /\ playing
    /\ playing' = FALSE
    /\ UNCHANGED <<clock, user_data, speaking_users, wcall, ready, task>>

(*---------------------------- specifications ---------------------------*)

Pipeline == TaskStart \/ Transcribe \/ Chat \/ Synthesize \/ Play \/ Finally

Next ==
    \/ Tick /\ UNCHANGED <<log, hist>>
    \/ WriteEnter /\ UNCHANGED <<log, hist>>
    \/ WriteBody /\ UNCHANGED <<log, hist>>
    \/ TaskStart /\ UNCHANGED <<log, hist>>
    \/ Transcribe /\ UNCHANGED <<log, hist>>
    \/ Chat /\ UNCHANGED <<log, hist>>
    \/ Synthesize /\ UNCHANGED <<log, hist>>
    \/ Play /\ UNCHANGED <<log, hist>>
    \/ Finally /\ UNCHANGED <<log, hist>>
    \/ PlaybackEnd /\ UNCHANGED <<log, hist>>

Spec == Init /\ [][Next]_vars

\* the event loop keeps running: every request returns or raises
FairSpec == Spec /\ WF_vars(Pipeline /\ UNCHANGED <<log, hist>>)

(*------------------- one speaker, no pipeline, no playback -------------*)

\* The frames of one speaker from the construction of the sink on, while no
\* coroutine is started and nothing plays: speech, pauses, and the silence
\* that closes the utterance.  After an utterance too short to be handed off
\* the speaker may speak again, and the log starts over; after one long
\* enough to be handed off only silent frames arrive.

\* the first of the users
Speaker == CHOOSE u \in Users : \A v \in Users : u <= v

\* the pauses the log records
MaxGap == 2

LoudFrames == {Loud1, Loud2}

SilentFrames == {Border, Empty, Odd}

RECURSIVE Bytes(_)
\* the bytes of a sequence of frames
Bytes(frames) ==
    IF frames = <<>> THEN 0 ELSE Head(frames).len + Bytes(Tail(frames))

Observe(l, pcm, now, left) ==
    LET l1 == [l EXCEPT !.flushes = IF left THEN @ + 1 ELSE @]
    IN  IF l.over /\ pcm \in LoudFrames
        THEN [NoLog EXCEPT !.loud = <<pcm>>, !.last = now, !.segs = 1]
        ELSE IF l.over THEN [l1 EXCEPT !.after = TRUE]
        ELSE IF pcm \in LoudFrames
        THEN [l1 EXCEPT !.loud = Append(@, pcm),
                        !.last = now,
                        !.gap = @ \o l.pend,
                        !.pend = <<>>,
                        !.segs = IF l.loud = <<>> \/ l.pend /= <<>> THEN @ + 1 ELSE @]
        ELSE IF l.loud = <<>> THEN l1
        ELSE IF now - l.last > SILENCE_DURATION THEN [l1 EXCEPT !.over = TRUE]
        ELSE [l1 EXCEPT !.pend = Append(@, pcm)]

ScenTick == Tick /\ UNCHANGED <<log, hist>>

ScenEnter ==
    /\ WriteEnter
    /\ wcall'.user \in {Speaker, None}
    /\ wcall'.pc = "body" =>
        /\ (log.over /\ Bytes(log.loud) > MinAudioBytes) =>
               wcall'.pcm \in SilentFrames
        /\ (wcall'.pcm \in SilentFrames /\ log.loud /= <<>> /\ ~log.over) =>
               \/ Len(log.gap) + Len(log.pend) < MaxGap
               \/ clock - log.last > SILENCE_DURATION
    /\ UNCHANGED <<log, hist>>

ScenBody ==
    /\ WriteBody
    /\ UNCHANGED hist
    /\ log' = Observe(log, wcall.pcm, clock,
                      Speaker \in speaking_users /\ Speaker \notin speaking_users')

ScenNext == ScenTick \/ ScenEnter \/ ScenBody

ScenarioSpec == Init /\ [][ScenNext]_vars

(*------------------ every speaker, with the history kept ---------------*)

\* The steps of Spec, each with what it adds to hist.

ProcIn(ud, u) == u \in DOMAIN ud /\ ud[u].processing

Min(a, b) == IF a <= b THEN a ELSE b

HistTick ==
    /\ Tick
    /\ hist' = [hist EXCEPT !.quiet =
                    [u \in Users |-> Min(@[u] + (clock' - clock), SILENCE_DURATION)]]
    /\ UNCHANGED log

HistEnter ==
    /\ \E user \in Users \cup {None}, pcm \in Frames :
        /\ Called(user, pcm)
        /\ hist' = IF user /= None /\ pcm \in LoudFrames
                   THEN [hist EXCEPT !.quiet[user] = 0]
                   ELSE hist
    /\ UNCHANGED log

HistBody ==
    /\ WriteBody
    /\ LET u == wcall.user
       IN  hist' =
             IF ProcIn(user_data, u) THEN hist
             ELSE IF wcall.pcm \in LoudFrames
             THEN [hist EXCEPT
                     !.accepted[u] = Append(@,
                         [pcm  |-> wcall.pcm,
                          late |-> @ /= <<>> /\ clock - hist.last[u] > SILENCE_DURATION]),
                     !.last[u] = clock]
             ELSE IF u \in speaking_users /\ u \notin speaking_users'
             THEN [hist EXCEPT !.accepted[u] = <<>>, !.last[u] = -1]
             ELSE hist
    /\ UNCHANGED log

HistPlay ==
    /\ Play
    /\ hist' = IF playing' /\ ~playing THEN [hist EXCEPT !.reply = task.user]
               ELSE hist
    /\ UNCHANGED log

HistPlaybackEnd ==
    /\ PlaybackEnd
    /\ hist' = [hist EXCEPT !.reply = None]
    /\ UNCHANGED log

HistNext ==
    \/ HistTick
    \/ HistEnter
    \/ HistBody
    \/ TaskStart /\ UNCHANGED <<log, hist>>
    \/ Transcribe /\ UNCHANGED <<log, hist>>
    \/ Chat /\ UNCHANGED <<log, hist>>
    \/ Synthesize /\ UNCHANGED <<log, hist>>
    \/ HistPlay
    \/ Finally /\ UNCHANGED <<log, hist>>
    \/ HistPlaybackEnd

HistSpec == Init /\ [][HistNext]_vars

(*------------------------------- the claims ----------------------------*)

\* the utterances of u handed off and not finished
InFlight(u) ==
    Cardinality({i \in DOMAIN ready : ready[i].user = u})
        + (IF task.pc /= "idle" /\ task.user = u THEN 1 ELSE 0)

\* a step that runs the body of write
BodyStep == wcall.pc = "body" /\ wcall'.pc = "ret"

\* a step in which write passes line 45
PassStep == wcall.pc = "ret" /\ wcall'.pc = "body"

\* a step that schedules process_audio for u
DispatchStep(u) == Len(ready') > Len(ready) /\ ready'[Len(ready')].user = u

\* C1: under every interleaving of write with the steps of process_audio,
\* no speaker ever has more than one utterance handed off and not finished,
\* and write schedules process_audio for no speaker whose processing flag is
\* set.
C1_OneInFlightPerSpeaker ==
    /\ [](\A u \in Users : InFlight(u) <= 1)
    /\ [][\A u \in Users : DispatchStep(u) => ~ProcIn(user_data, u)]_vars

\* a speaker's utterance is in flight while a loud frame of that speaker is
\* inside write
C1_Witness ==
    \E u \in Users :
        /\ InFlight(u) = 1
        /\ ProcIn(user_data, u)
        /\ wcall.pc = "body" /\ wcall.user = u /\ wcall.pcm \in LoudFrames

\* C2: the finally clause of process_audio clears the speaker's processing
\* flag on every way out, and, the loop running every coroutine and every
\* request returning or raising, a set flag is always cleared in the end.
C2_FlagAlwaysReleased ==
    /\ [][(task.pc = "finally" /\ task'.pc = "idle")
            => ~ProcIn(user_data', task.user)]_vars
    /\ \A u \in Users : ProcIn(user_data, u) ~> ~ProcIn(user_data, u)

\* a reply is playing: a coroutine went all the way, and no flag is left set
C2_Witness ==
    /\ playing
    /\ task = NoTask /\ ready = <<>>
    /\ \A u \in Users : ~ProcIn(user_data, u)

\* C3: while is_playing() is true and no call of write is past line 45, no
\* step creates a tracker, changes a buffer, a last_spoken or speaking_users,
\* sets a processing flag or schedules process_audio, and no frame passes
\* line 45; as soon as is_playing() is false a frame passes it again.
C3_PlaybackSuppression ==
    /\ [][(playing /\ wcall.pc = "ret") =>
            /\ wcall'.pc = "ret"
            /\ DOMAIN user_data' = DOMAIN user_data
            /\ \A u \in DOMAIN user_data :
                  /\ user_data'[u].buffer = user_data[u].buffer
                  /\ user_data'[u].last_spoken = user_data[u].last_spoken
                  /\ user_data'[u].processing => user_data[u].processing
            /\ speaking_users' = speaking_users
            /\ Len(ready') <= Len(ready)]_vars
    /\ []((~playing /\ wcall.pc = "ret")
            => ENABLED (WriteEnter /\ wcall'.pc = "body" /\ UNCHANGED <<log, hist>>))

\* a reply plays while a speaker is in the middle of an utterance
C3_Witness ==
    /\ playing
    /\ wcall.pc = "ret"
    /\ \E u \in speaking_users : user_data[u].buffer /= <<>>

\* C4: the body of write, run for speaker a while a's processing flag is set,
\* changes nothing; and no call of write for a changes the tracker of
\* another speaker b (its record, its being known, its being in
\* speaking_users).
C4_OnlyOwnTracker ==
    [][/\ PassStep => UNCHANGED <<user_data, speaking_users, ready>>
       /\ BodyStep =>
            /\ ProcIn(user_data, wcall.user) =>
                    UNCHANGED <<user_data, speaking_users, ready>>
            /\ \A b \in Users \ {wcall.user} :
                  /\ (b \in DOMAIN user_data') = (b \in DOMAIN user_data)
                  /\ b \in DOMAIN user_data => user_data'[b] = user_data[b]
                  /\ (b \in speaking_users') = (b \in speaking_users)]_vars

\* a frame of a speaker being processed is inside write while another
\* speaker is in the middle of an utterance
C4_Witness ==
    /\ wcall.pc = "body"
    /\ ProcIn(user_data, wcall.user)
    /\ \E b \in speaking_users \ {wcall.user} : user_data[b].buffer /= <<>>

\* the body of write reaches line 83 for u
FlushStep(u) ==
    /\ BodyStep
    /\ wcall.user = u
    /\ wcall.pcm \in SilentFrames
    /\ u \in DOMAIN user_data
    /\ ~user_data[u].processing
    /\ u \in speaking_users
    /\ clock - user_data[u].last_spoken > SILENCE_DURATION

\* C5: at a flush the buffer is handed to process_audio, and the processing
\* flag set, exactly when it is longer than MIN_AUDIO_LENGTH * 48000 * 2 * 2
\* bytes; either way the buffer is empty afterwards and the speaker no
\* longer in speaking_users.
C5_FlushRule ==
    [][\A u \in Users : FlushStep(u) =>
        LET buf == user_data[u].buffer
        IN  /\ BufLen(buf) > MinAudioBytes =>
                  /\ ready' = Append(ready, [user |-> u, pcm_data |-> buf])
                  /\ user_data'[u].processing
            /\ BufLen(buf) <= MinAudioBytes =>
                  /\ ready' = ready
                  /\ ~user_data'[u].processing
            /\ user_data'[u].buffer = <<>>
            /\ u \notin speaking_users']_vars

\* one speaker's utterance was flushed and handed off, and the silent
\* frame that flushes a buffer of exactly the threshold is inside write
C5_Witness ==
    /\ \E i \in DOMAIN ready :
          /\ BufLen(ready[i].pcm_data) > MinAudioBytes
          /\ ProcIn(user_data, ready[i].user)
          /\ user_data[ready[i].user].buffer = <<>>
          /\ ready[i].user \notin speaking_users
    /\ wcall.pc = "body"
    /\ wcall.pcm \in SilentFrames
    /\ wcall.user \in speaking_users
    /\ ~ProcIn(user_data, wcall.user)
    /\ BufLen(user_data[wcall.user].buffer) = MinAudioBytes
    /\ clock - user_data[wcall.user].last_spoken > SILENCE_DURATION

BufIn(ud, u) == IF u \in DOMAIN ud THEN ud[u].buffer ELSE <<>>

\* C6: for every sequence of frames of one speaker (nothing playing, nothing
\* being processed), as long as no silent frame has arrived more than
\* SILENCE_DURATION after the last loud one, nothing is flushed or handed
\* off, the buffer is the loud frames so far, those before a pause and those
\* after it, and last_spoken is the time of the last loud frame.
C6_ShortGapNeverFlushes ==
    ~log.over =>
        /\ log.flushes = 0
        /\ ready = <<>>
        /\ ~ProcIn(user_data, Speaker)
        /\ BufIn(user_data, Speaker) = log.loud
        /\ log.loud /= <<>> =>
              /\ Speaker \in speaking_users
              /\ user_data[Speaker].last_spoken = log.last

\* speech, a pause with bytes in it, and speech again
C6_Witness ==
    /\ ~log.over
    /\ log.segs = 2
    /\ Bytes(log.gap) > 0
    /\ wcall.pc = "ret"
    /\ Len(BufIn(user_data, Speaker)) = 2

\* C7: loud frames of more than the minimum length, then silent frames that
\* go on beyond SILENCE_DURATION after the last loud one: there is one flush
\* and one hand-off, of all the loud frames in their order, whatever silent
\* frames follow, and the buffer is empty afterwards.
C7_OneFlushOfAllLoudAudio ==
    (log.over /\ Bytes(log.loud) > MinAudioBytes) =>
        /\ log.flushes = 1
        /\ ready = <<[user |-> Speaker, pcm_data |-> log.loud]>>
        /\ BufIn(user_data, Speaker) = <<>>
        /\ Speaker \notin speaking_users

\* the utterance is handed off and a further silent frame has come and gone
C7_Witness ==
    /\ log.over /\ log.after
    /\ wcall.pc = "ret"
    /\ Bytes(log.loud) > MinAudioBytes
    /\ Len(ready) = 1

\* C8, as claimed: loud, a pause shorter than SILENCE_DURATION, loud, then
\* silence longer than SILENCE_DURATION: the buffer handed off is as long as
\* both loud segments and the silent frames of the pause together.
C8_Original ==
    (log.over /\ log.segs >= 2 /\ Bytes(log.loud) > MinAudioBytes) =>
        /\ Len(ready) = 1
        /\ BufLen(ready[1].pcm_data) = Bytes(log.loud) + Bytes(log.gap)

\* C8, amended: loud, a pause shorter than SILENCE_DURATION, loud, then
\* silence longer than SILENCE_DURATION: there is one flush, and the buffer
\* it hands off (when longer than the minimum) is the loud segments alone,
\* as long as they are together; the silent frames of the pause are not in
\* it.
C8_FlushHoldsLoudSegmentsOnly ==
    (log.over /\ log.segs >= 2) =>
        /\ log.flushes = 1
        /\ IF Bytes(log.loud) > MinAudioBytes
           THEN /\ Len(ready) = 1
                /\ ready[1].pcm_data = log.loud
                /\ BufLen(ready[1].pcm_data) = Bytes(log.loud)
           ELSE ready = <<>>

\* two loud segments around a pause with bytes in it have been handed off
C8_Witness ==
    /\ log.over
    /\ log.segs >= 2
    /\ Bytes(log.gap) > 0
    /\ Len(ready) = 1

\* the body of write runs for u, not in speaking_users, with a silent frame
SilentIdleStep(u) ==
    /\ BodyStep
    /\ wcall.user = u
    /\ wcall.pcm \in SilentFrames
    /\ u \notin speaking_users

\* C9, as claimed: a silent frame for a speaker not in speaking_users
\* changes nothing, the first frame of a speaker included.
C9_Original ==
    [][\A u \in Users : SilentIdleStep(u) =>
        UNCHANGED <<user_data, speaking_users, ready, playing, task, clock>>]_vars

\* C9, amended: a silent frame for a speaker not in speaking_users changes
\* nothing but this: when it is the first frame of that speaker, write
\* creates the speaker's tracker, with an empty buffer, last_spoken = now and
\* processing false.
C9_SilentFrameOnlyRegisters ==
    [][\A u \in Users : SilentIdleStep(u) =>
        /\ user_data' =
              IF u \in DOMAIN user_data THEN user_data
              ELSE (u :> [buffer |-> <<>>, last_spoken |-> clock,
                          processing |-> FALSE]) @@ user_data
        /\ UNCHANGED <<speaking_users, ready, playing, task, clock>>]_vars

\* a tracker that a silent frame has just created, after time has passed
C9_Witness ==
    /\ wcall.pc = "ret"
    /\ clock > 0
    /\ \E u \in DOMAIN user_data :
          /\ user_data[u] = [buffer |-> <<>>, last_spoken |-> clock,
                              processing |-> FALSE]
          /\ u \notin speaking_users

\* C10: a speaker leaves speaking_users only in the body of write, run for
\* that speaker with a silent frame more than SILENCE_DURATION after
\* last_spoken; and a processing flag is set only in such a step, for a
\* speaker that was in speaking_users before it.
C10_FlushIsTheOnlyWayOut ==
    [][\A u \in Users :
        /\ (u \in speaking_users /\ u \notin speaking_users') =>
              /\ BodyStep
              /\ wcall.user = u
              /\ wcall.pcm \in SilentFrames
              /\ clock - user_data[u].last_spoken > SILENCE_DURATION
        /\ (~ProcIn(user_data, u) /\ ProcIn(user_data', u)) =>
              /\ u \in speaking_users /\ u \notin speaking_users'
              /\ BodyStep
              /\ wcall.user = u]_vars

\* a speaker has left speaking_users and is being processed
C10_Witness ==
    \E u \in Users :
        /\ ProcIn(user_data, u)
        /\ u \notin speaking_users
        /\ InFlight(u) = 1
        /\ clock - user_data[u].last_spoken > SILENCE_DURATION

\* the audio_copy of the utterance of u that is handed off and not finished
InFlightData(u) ==
    IF task.pc /= "idle" /\ task.user = u THEN task.pcm_data
    ELSE LET i == CHOOSE i \in DOMAIN ready : ready[i].user = u
         IN  ready[i].pcm_data

\* C11: a speaker's buffer changes only in the body of write, run for that
\* speaker while its processing flag is false; process_audio gets the bytes
\* the buffer held at the flush, and they stay what they were through every
\* later step, of write and of the coroutine, until the coroutine ends; a
\* step of the coroutine changes nothing of user_data but processing flags,
\* and nothing of speaking_users.
C11_BufferOwnership ==
    [][/\ \A u \in Users :
            /\ BufIn(user_data', u) /= BufIn(user_data, u) =>
                  /\ BodyStep
                  /\ wcall.user = u
                  /\ ~ProcIn(user_data, u)
            /\ DispatchStep(u) =>
                  ready'[Len(ready')].pcm_data = user_data[u].buffer
            /\ (InFlight(u) = 1 /\ InFlight(u)' = 1) =>
                  InFlightData(u)' = InFlightData(u)
       /\ task' /= task =>
            /\ DOMAIN user_data' = DOMAIN user_data
            /\ \A u \in DOMAIN user_data :
                  /\ user_data'[u].buffer = user_data[u].buffer
                  /\ user_data'[u].last_spoken = user_data[u].last_spoken
            /\ speaking_users' = speaking_users]_vars

\* a coroutine is about to play the reply to an utterance of two frames,
\* while a frame of its speaker is inside write and another speaker is in
\* the middle of an utterance
C11_Witness ==
    /\ task.pc = "play"
    /\ Len(task.pcm_data) = 2
    /\ wcall.pc = "body" /\ wcall.user = task.user
    /\ \E b \in speaking_users \ {task.user} : Len(user_data[b].buffer) = 1

\* the statements of process_audio in their order
Rank(pc) ==
    CASE pc = "idle" -> 0 [] pc = "stt" -> 1 [] pc = "chat" -> 2
      [] pc = "tts" -> 3 [] pc = "play" -> 4 [] pc = "finally" -> 5

Failures == {"wav_error", "stt_error", "chat_error", "tts_error", "play_error"}

\* C12: a coroutine only moves forward through transcription, chat, speech
\* and play, so that each is requested at most once for an utterance; chat
\* is requested only from a transcription that returned a text with more
\* than whitespace in it, speech only from a chat that returned, play only
\* from a speech that returned; a request that raises, or an empty text,
\* takes the coroutine straight to its finally clause, and that step and
\* the finally clause leave every other speaker's tracker, speaking_users,
\* playback and the running call of write as they are; a call of write
\* past line 45 can always run its body.
C12_SequentialAbortOnFailure ==
    /\ [][task' /= task =>
            /\ \/ task.pc = "finally" /\ task' = NoTask
               \/ /\ Rank(task'.pc) > Rank(task.pc)
                  /\ task.pc /= "idle" =>
                        task'.user = task.user /\ task'.pcm_data = task.pcm_data
            /\ task'.pc = "chat" => task.pc = "stt" /\ Len(Strip(task'.user_text)) > 0
            /\ task'.pc = "tts" => task.pc = "chat"
            /\ task'.pc = "play" => task.pc = "tts"
            /\ playing' /= playing => task.pc = "play" /\ task'.outcome = "played"
            /\ (task'.outcome \in Failures \cup {"empty"} \/ task.pc = "finally") =>
                  /\ task.pc /= "finally" => task'.pc = "finally" /\ user_data' = user_data
                  /\ \A b \in Users \ {task'.user, task.user} :
                        BufIn(user_data', b) = BufIn(user_data, b)
                        /\ ProcIn(user_data', b) = ProcIn(user_data, b)
                        /\ (b \in DOMAIN user_data') = (b \in DOMAIN user_data)
                  /\ UNCHANGED <<speaking_users, playing, wcall>>]_vars
    /\ [](wcall.pc = "body" => ENABLED (WriteBody /\ UNCHANGED <<log, hist>>))

\* a transcription that returned whitespace has taken a coroutine to its
\* finally clause while another speaker's utterance waits to be processed
C12_Witness ==
    /\ task.pc = "finally"
    /\ task.outcome = "empty"
    /\ task.user_text /= <<>>
    /\ \E i \in DOMAIN ready : ready[i].user /= task.user

\* C13, as claimed: two speakers can have utterances handed off at the same
\* time, and while the coroutine of speaker A is inside one of its requests,
\* the coroutine scheduled for another speaker B can take its next step (and
\* so go through its steps and clear B's flag, whether or not A's request
\* ever returns).
C13_IndependentPipelines ==
    \A i \in DOMAIN ready :
        (task.pc \in {"stt", "chat", "tts", "play"} /\ task.user /= ready[i].user) =>
            ENABLED (TaskStart /\ task'.user = ready[i].user /\ UNCHANGED <<log, hist>>)

\* C14, as claimed: when a coroutine has started the playback of its reply,
\* the speaker's processing flag is cleared only once that playback is over
\* (the flag is set for as long as the reply plays).
C14_Original ==
    [][\A u \in Users :
        (ProcIn(user_data, u) /\ ~ProcIn(user_data', u) /\ task.outcome = "played")
            => ~playing]_vars

\* C14, amended: the speaker's processing flag is set for the whole of the
\* coroutine, from the hand-off up to and including the call of play, which
\* returns as soon as playback has started; it is cleared by the finally
\* clause of that speaker's coroutine and by nothing else, and the finally
\* clause runs whether or not the playback is over.
C14_FlagCoversCoroutineOnly ==
    /\ [](/\ \A i \in DOMAIN ready : ProcIn(user_data, ready[i].user)
          /\ task.pc /= "idle" => ProcIn(user_data, task.user)
          /\ (task.pc = "finally" /\ task.outcome = "played") =>
                ENABLED (Finally /\ UNCHANGED <<log, hist>>))
    /\ [][/\ (playing' /\ ~playing) =>
                ProcIn(user_data, task.user) /\ ProcIn(user_data', task.user)
          /\ \A u \in Users :
                (ProcIn(user_data, u) /\ ~ProcIn(user_data', u)) =>
                    task.pc = "finally" /\ task.user = u /\ task' = NoTask]_vars

\* the reply plays and the finally clause has not run yet, while another
\* speaker's utterance waits to be processed
C14_Witness ==
    /\ playing
    /\ task.pc = "finally"
    /\ task.outcome = "played"
    /\ ProcIn(user_data, task.user)
    /\ ready /= <<>>

\* a byte string of no or of an odd number of bytes
Malformed(pcm) == pcm.len = 0 \/ pcm.len % 2 = 1

\* C15: a frame of no bytes or of an odd number of bytes never stops write
\* (its body runs to the end), and the body treats it as it treats a silent
\* frame: nothing is appended to the buffer, last_spoken stays (a tracker
\* the frame creates gets the time of the frame), and if the speaker is in
\* speaking_users and more than SILENCE_DURATION has passed since
\* last_spoken, the frame flushes: the speaker leaves speaking_users, the
\* buffer is emptied, and it is handed off if it is long enough; otherwise
\* nothing changes.
C15_MalformedFrameIsSilence ==
    /\ []((wcall.pc = "body" /\ Malformed(wcall.pcm))
            => ENABLED (WriteBody /\ UNCHANGED <<log, hist>>))
    /\ [][(BodyStep /\ Malformed(wcall.pcm) /\ ~ProcIn(user_data, wcall.user)) =>
            LET u   == wcall.user
                ud  == IF u \in DOMAIN user_data THEN user_data
                       ELSE (u :> [buffer |-> <<>>, last_spoken |-> clock,
                                   processing |-> FALSE]) @@ user_data
                buf == ud[u].buffer
            IN  /\ user_data'[u].last_spoken = ud[u].last_spoken
                /\ IF u \in speaking_users
                      /\ clock - ud[u].last_spoken > SILENCE_DURATION
                   THEN /\ speaking_users' = speaking_users \ {u}
                        /\ user_data'[u].buffer = <<>>
                        /\ IF BufLen(buf) > MinAudioBytes
                           THEN /\ ready' = Append(ready, [user |-> u, pcm_data |-> buf])
                                /\ user_data'[u].processing
                           ELSE /\ ready' = ready
                                /\ ~user_data'[u].processing
                   ELSE /\ user_data' = ud
                        /\ UNCHANGED <<speaking_users, ready>>]_vars

\* a frame of an odd number of bytes, whose samples are above the
\* threshold, is inside write and about to flush an utterance long enough
\* to be handed off
C15_Witness ==
    /\ wcall.pc = "body"
    /\ wcall.pcm.len % 2 = 1
    /\ wcall.pcm.amp > SILENCE_THRESHOLD
    /\ wcall.user \in speaking_users
    /\ ~ProcIn(user_data, wcall.user)
    /\ BufLen(user_data[wcall.user].buffer) > MinAudioBytes
    /\ clock - user_data[wcall.user].last_spoken > SILENCE_DURATION

\* C16, as claimed: whatever frames arrive, whatever plays and whichever
\* coroutines end, no buffer that is handed off holds a loud frame that came
\* more than SILENCE_DURATION after the loud frame before it in that buffer.
C16_UtterancesAreContiguous ==
    [][\A u \in Users : DispatchStep(u) =>
        \A i \in DOMAIN hist.accepted[u] : ~hist.accepted[u][i].late]_vars

\* C17, as claimed: a speaker is flushed (leaves speaking_users) only when
\* at least SILENCE_DURATION has passed since the last call of write with a
\* loud frame of that speaker, the calls that line 45 returned while a reply
\* played included.
C17_NoFlushWhileStillHeard ==
    [][\A u \in Users :
        (u \in speaking_users /\ u \notin speaking_users') =>
            hist.quiet[u] >= SILENCE_DURATION]_vars

\* the frames of a sequence of accepted frames
Pcms(acc) == [i \in 1..Len(acc) |-> acc[i].pcm]

\* C18: the buffer write hands off is the loud frames accepted for that
\* speaker since the speaker's last flush (or since the tracker was
\* created), all of them, once each, in the order they arrived; the frames
\* accepted for one speaker never are in the buffer of another, and with
\* the flush the speaker's accepted frames start over.
C18_HandOffIsWhatWasAccepted ==
    /\ [](\A u \in Users : BufIn(user_data, u) = Pcms(hist.accepted[u]))
    /\ [][\A u \in Users :
            /\ DispatchStep(u) =>
                  /\ ready' = Append(ready,
                        [user |-> u, pcm_data |-> Pcms(hist.accepted[u])])
                  /\ hist.accepted'[u] = <<>>
            /\ (u \in speaking_users /\ u \notin speaking_users') =>
                  BufIn(user_data', u) = <<>> /\ hist.accepted'[u] = <<>>]_vars

\* two speakers' utterances are handed off, of the same two frames in
\* opposite orders, and no frame of either has been accepted since
C18_Witness ==
    /\ Len(ready) = 2
    /\ ready[1].pcm_data = <<Loud1, Loud2>>
    /\ ready[2].pcm_data = <<Loud2, Loud1>>
    /\ hist.accepted[ready[1].user] = <<>>
    /\ hist.accepted[ready[2].user] = <<>>

\* C19: whenever no call of write is inside its body, every speaker with a
\* tracker is in speaking_users exactly when its buffer is not empty, and a
\* speaker whose processing flag is set is not in speaking_users and has an
\* empty buffer; speaking_users holds no speaker without a tracker.
C19_TrackerInvariant ==
    /\ speaking_users \subseteq DOMAIN user_data
    /\ \A u \in DOMAIN user_data :
          /\ (u \in speaking_users) = (BufLen(user_data[u].buffer) > 0)
          /\ user_data[u].processing =>
                u \notin speaking_users /\ user_data[u].buffer = <<>>

\* one speaker is being processed while the other is in the middle of an
\* utterance, silent for longer than SILENCE_DURATION and not yet flushed
C19_Witness ==
    /\ wcall.pc = "ret"
    /\ \E u \in DOMAIN user_data, v \in DOMAIN user_data :
          /\ user_data[u].processing
          /\ u \notin speaking_users
          /\ v \in speaking_users
          /\ Len(user_data[v].buffer) = 2
          /\ clock - user_data[v].last_spoken > SILENCE_DURATION

\* C20, as claimed: under every interleaving of write with process_audio,
\* from the hand-off of a speaker's utterance until the coroutine has ended
\* and, if it started a playback, until that playback is over, no run of
\* the body of write for that speaker takes a frame in (none changes the
\* speaker's tracker or speaking_users).
C20_NoCaptureUntilReplyEnds ==
    [][\A u \in Users :
        (/\ BodyStep
         /\ wcall.user = u
         /\ InFlight(u) > 0 \/ (playing /\ hist.reply = u)) =>
            /\ user_data' = user_data
            /\ speaking_users' = speaking_users]_vars

====
